---- MODULE Spec2Model ----
(***************************************************************************)
(* A model of scanner.py: the ignore matcher (should_ignore), the          *)
(* recursive tree builder (scan_directory) and the statistics aggregator   *)
(* (get_stats / count_items).                                              *)
(*                                                                         *)
(* Strings are sequences of one-character strings, so that glob matching,  *)
(* path joining and splitting, extension splitting and lower-casing are    *)
(* computed character by character as the Python library computes them.    *)
(* A path is a sequence of names; a name is a string.                      *)
(***************************************************************************)
EXTENDS Integers, Sequences, FiniteSets, TLC

VARIABLES fs, patterns, pc, stack, tree, exc, stats, work

vars == <<fs, patterns, pc, stack, tree, exc, stats, work>>

----------------------------------------------------------------------------
(* Bounds of the model.                                                    *)

\* Largest number of entries below the scan root in a generated filesystem.
MaxEntries == 4

\* Largest number of patterns in a generated pattern set.
MaxPatterns == 2

\* Largest number of File nodes in a tree handed directly to get_stats.
MaxFiles == 11

\* Symbolic links the host follows while resolving one path before it
\* answers ELOOP (40 on Linux).
MaxSymlinks == 2

\* largest_files is cut to this many entries: stats['largest_files'][:10].
TopN == 10

----------------------------------------------------------------------------
(* Characters and strings.                                                 *)

\* The characters of the model, in code-point order.
AsciiOrder ==
    << "*", ".", "/", "?", "B", "T", "X", "\\",
       "a", "b", "c", "d", "e", "g", "i", "l", "m", "o", "p", "r", "s",
       "t", "u", "x" >>

Ord(c) == CHOOSE i \in 1..Len(AsciiOrder) : AsciiOrder[i] = c

\* str.lower() on one character.
LowerChar(c) ==
    CASE c = "B" -> "b"
      [] c = "T" -> "t"
      [] c = "X" -> "x"
      [] OTHER -> c

\* str.lower()
Lower(s) == [i \in 1..Len(s) |-> LowerChar(s[i])]

\* s < t in Python's string order (code points, a proper prefix first).
RECURSIVE StrLess(_, _)
StrLess(s, t) ==
    IF t = <<>> THEN FALSE
    ELSE IF s = <<>> THEN TRUE
    ELSE IF Head(s) = Head(t) THEN StrLess(Tail(s), Tail(t))
    ELSE Ord(Head(s)) < Ord(Head(t))

\* str.replace('\\', '/')
ReplaceBackslash(s) == [i \in 1..Len(s) |-> IF s[i] = "\\" THEN "/" ELSE s[i]]

\* '/'.join(parts)
RECURSIVE JoinSlash(_)
JoinSlash(parts) ==
    IF parts = <<>> THEN <<>>
    ELSE IF Len(parts) = 1 THEN parts[1]
    ELSE parts[1] \o <<"/">> \o JoinSlash(Tail(parts))

\* str(PurePath(*parts)): the empty relative path is written ".".
PathStr(parts) == IF parts = <<>> THEN <<".">> ELSE JoinSlash(parts)

\* s.split('/')
RECURSIVE SplitSlash(_, _)
SplitSlash(s, cur) ==
    IF s = <<>> THEN <<cur>>
    ELSE IF Head(s) = "/" THEN <<cur>> \o SplitSlash(Tail(s), <<>>)
    ELSE SplitSlash(Tail(s), Append(cur, Head(s)))

\* Path(s).parts for a relative path string: empty and "." components are
\* dropped, so Path('.').parts is the empty tuple.
PathParts(s) ==
    SelectSeq(SplitSlash(s, <<>>), LAMBDA part : part # <<>> /\ part # <<".">>)

\* fnmatch.fnmatch(name, pat) on a POSIX host (normcase is the identity),
\* for patterns built from literal characters, "*" and "?".
RECURSIVE FnMatch(_, _)
FnMatch(name, pat) ==
    IF pat = <<>> THEN name = <<>>
    ELSE IF Head(pat) = "*"
         THEN FnMatch(name, Tail(pat))
              \/ (name # <<>> /\ FnMatch(Tail(name), pat))
    ELSE IF Head(pat) = "?"
         THEN name # <<>> /\ FnMatch(Tail(name), Tail(pat))
    ELSE name # <<>> /\ Head(name) = Head(pat)
         /\ FnMatch(Tail(name), Tail(pat))

\* os.path.splitext(name)[1]: the text from the last "." on, unless only
\* dots precede that "." (leading dots are not an extension).
LastDot(name) ==
    IF \E i \in 1..Len(name) : name[i] = "."
    THEN CHOOSE i \in 1..Len(name) :
            name[i] = "." /\ \A j \in (i+1)..Len(name) : name[j] # "."
    ELSE 0

\* A slip: every last "." starts an extension, leading dots too.
SplitExt_FromAnyLastDot(name) ==
    IF LastDot(name) > 0 THEN SubSeq(name, LastDot(name), Len(name)) ELSE <<>>

SplitExt(name) ==
    LET d == LastDot(name) IN
    IF d > 0 /\ \E k \in 1..(d-1) : name[k] # "."
    THEN SubSeq(name, d, Len(name))
    ELSE <<>>

----------------------------------------------------------------------------
(* The filesystem below the scan root.                                      *)
(*                                                                         *)
(* fs maps the real path of every entry to what is stored there:           *)
(*   kind "dir":  a directory; fault "EACCES" when listing it is denied    *)
(*   kind "file": a non-directory of `size` bytes; fault "EACCES" when a   *)
(*                stat of it is denied, "ENOENT" when a stat finds nothing *)
(*                (a broken symbolic link, a file deleted during the walk) *)
(*   kind "link": a symbolic link to the directory `target`, an ancestor   *)

Dir(name) == [name |-> name, kind |-> "dir", size |-> 0, fault |-> "none"]

File(name, size) ==
    [name |-> name, kind |-> "file", size |-> size, fault |-> "none"]

Faulty(template, fault) == [template EXCEPT !.fault = fault]

Link(name) == [name |-> name, kind |-> "link", size |-> 0, fault |-> "none"]

Entry(template, target) ==
    [kind |-> template.kind, size |-> template.size,
     fault |-> template.fault, target |-> target]

Prefixes(path) == {SubSeq(path, 1, k) : k \in 0..Len(path)}

\* The filesystems that hold f and one entry more, made from a template.
Grow(f, templates) ==
    LET parents == {<<>>} \cup {q \in DOMAIN f : f[q].kind = "dir"} IN
    UNION {
      UNION {
        IF Append(parent, t.name) \in DOMAIN f THEN {}
        ELSE IF t.kind = "link"
             THEN {f @@ (Append(parent, t.name) :> Entry(t, target)) :
                      target \in Prefixes(parent)}
             ELSE {f @@ (Append(parent, t.name) :> Entry(t, <<>>))}
        : t \in templates }
      : parent \in parents }

\* Every filesystem of at most k entries made from the templates.
RECURSIVE FileSystems(_, _)
FileSystems(templates, k) ==
    IF k = 0 THEN { <<>> }
    ELSE LET smaller == FileSystems(templates, k - 1) IN
         smaller \cup UNION {Grow(f, templates) : f \in smaller}

\* Every set of at most k patterns from a pool.
PatternSets(pool, k) == {ps \in SUBSET pool : Cardinality(ps) <= k}

\* The host's resolution of the root-relative path `rest`, from the real
\* directory `cur`, having followed `hops` symbolic links: the entry found,
\* or the errno of the failure.
RECURSIVE Walk(_, _, _, _)
Walk(f, cur, rest, hops) ==
    IF rest = <<>>
    THEN [errno |-> "none", kind |-> "dir", real |-> cur, size |-> 0,
          fault |-> IF cur = <<>> THEN "none" ELSE f[cur].fault]
    ELSE LET next == Append(cur, Head(rest)) IN
         IF next \notin DOMAIN f
         THEN [errno |-> "ENOENT", kind |-> "none", real |-> next,
               size |-> 0, fault |-> "none"]
         ELSE IF f[next].kind = "link"
              THEN IF hops + 1 > MaxSymlinks
                   THEN [errno |-> "ELOOP", kind |-> "none", real |-> next,
                         size |-> 0, fault |-> "none"]
                   ELSE Walk(f, f[next].target, Tail(rest), hops + 1)
         ELSE IF f[next].kind = "dir"
              THEN Walk(f, next, Tail(rest), hops)
         ELSE IF Tail(rest) # <<>>
              THEN [errno |-> "ENOTDIR", kind |-> "none", real |-> next,
                    size |-> 0, fault |-> "none"]
         ELSE IF f[next].fault # "none"
              THEN [errno |-> f[next].fault, kind |-> "none", real |-> next,
                    size |-> 0, fault |-> f[next].fault]
         ELSE [errno |-> "none", kind |-> "file", real |-> next,
               size |-> f[next].size, fault |-> "none"]

\* os.stat(root / path), following symbolic links.
Stat(f, path) == Walk(f, <<>>, path, 0)

\* Path.is_dir(): "raise" for an errno it does not swallow (EACCES), FALSE
\* for the ones it does (ENOENT, ENOTDIR, ELOOP).
IsDir(f, path) ==
    LET st == Stat(f, path) IN
    IF st.errno = "EACCES" THEN "raise"
    ELSE IF st.errno = "none" /\ st.kind = "dir" THEN "yes"
    ELSE "no"

\* The names path.iterdir() yields (the listed directory is readable).
ListDir(f, path) ==
    LET real == Stat(f, path).real IN
    {q[Len(q)] : q \in {p \in DOMAIN f : Len(p) = Len(real) + 1
                                         /\ SubSeq(p, 1, Len(real)) = real}}

\* sorted(...) of a set of names.
RECURSIVE SortNames(_)
SortNames(names) ==
    IF names = {} THEN <<>>
    ELSE LET least == CHOOSE n \in names :
                          \A m \in names \ {n} : StrLess(n, m)
         IN <<least>> \o SortNames(names \ {least})

----------------------------------------------------------------------------
(* should_ignore                                                            *)

\* fnmatch.fnmatch(path_str, pattern): the pattern against the whole
\* root-relative path.
DirectMatch(path, pattern) ==
    FnMatch(ReplaceBackslash(PathStr(path)), pattern)

\* A slip: the directory rule without its path.is_dir() test.
DirectoryMatch_AnyKind(f, path, pattern) ==
    FnMatch(path[Len(path)], SubSeq(pattern, 1, Len(pattern) - 1))

\* fnmatch.fnmatch(path.name, pattern[:-1]) once path.is_dir() said yes.
DirectoryMatch(f, path, pattern) ==
    /\ IsDir(f, path) = "yes"
    /\ FnMatch(path[Len(path)], SubSeq(pattern, 1, Len(pattern) - 1))

\* any(fnmatch.fnmatch(str(parent) + '/', pattern)
\*     for parent in relative_path.parents)
ParentMatch(path, pattern) ==
    \E parent \in Prefixes(path) \ {path} :
        FnMatch(PathStr(parent) \o <<"/">>, pattern)

\* A slip: the name rule matched against the whole relative path.
NameMatch_WholePath(path, pattern) == FnMatch(PathStr(path), pattern)

\* fnmatch.fnmatch(path.name, pattern)
NameMatch(path, pattern) == FnMatch(path[Len(path)], pattern)

\* One turn of the loop over the patterns: "ignore" (return True), "raise"
\* (path.is_dir() raises PermissionError) or "pass" (next pattern).
PatternResult(f, path, pattern) ==
    IF DirectMatch(path, pattern) THEN "ignore"
    ELSE IF pattern[Len(pattern)] = "/"
         THEN IF IsDir(f, path) = "raise" THEN "raise"
              ELSE IF DirectoryMatch(f, path, pattern) THEN "ignore"
              ELSE IF ParentMatch(path, pattern) THEN "ignore"
              ELSE IF NameMatch(path, pattern) THEN "ignore"
              ELSE "pass"
    ELSE IF NameMatch(path, pattern) THEN "ignore"
    ELSE "pass"

\* should_ignore(path, root_path, patterns): the outcomes the call can have.
\* The pattern set is iterated in an unspecified order and the first
\* pattern that does not pass decides; "keep" is return False.
should_ignore(f, path, pats) ==
    LET decided == {PatternResult(f, path, pattern) : pattern \in pats}
                       \ {"pass"}
    IN IF decided = {} THEN {"keep"} ELSE decided

----------------------------------------------------------------------------
(* Nodes of the built tree.                                                 *)

NoNode ==
    [type |-> "none", name |-> <<>>, path |-> <<>>, size |-> 0,
     children |-> <<>>, error |-> "none"]

FileNode(path, size) ==
    [type |-> "file", name |-> path[Len(path)], path |-> PathStr(path),
     size |-> size, children |-> <<>>, error |-> "none"]

RootName == <<"r">>

DirNode(path, children, error) ==
    [type |-> "directory",
     name |-> IF path = <<>> THEN RootName ELSE path[Len(path)],
     path |-> PathStr(path), size |-> 0,
     children |-> children, error |-> error]

\* The frame of a call scan_directory(path, ...) as it enters its loop:
\* sorted(path.iterdir()) is waiting, or PermissionError has been caught.
NewFrame(f, path) ==
    IF Stat(f, path).fault = "EACCES"
    THEN [path |-> path, todo |-> <<>>, children |-> <<>>,
          error |-> "Permission denied"]
    ELSE [path |-> path, todo |-> SortNames(ListDir(f, path)),
          children |-> <<>>, error |-> "none"]

\* The exception a failed stat raises.
OSErrorOf(errno) ==
    CASE errno = "ENOENT" -> "FileNotFoundError"
      [] errno = "EACCES" -> "PermissionError"
      [] errno = "ENOTDIR" -> "NotADirectoryError"
      [] OTHER -> "OSError"

----------------------------------------------------------------------------
(* get_stats                                                                *)

initial_stats ==
    [files |-> 0, directories |-> 0, total_size |-> 0,
     extensions |-> <<>>, size_by_ext |-> <<>>,
     largest_files |-> <<>>, max_depth |-> 0]

\* dict.get(key, default)
Get(d, key, default) == IF key \in DOMAIN d THEN d[key] ELSE default

\* d[key] = value
Put(d, key, value) ==
    [k \in DOMAIN d \cup {key} |-> IF k = key THEN value ELSE d[k]]

\* A slip: an element placed before the elements of its own size.
InsertDesc_BeforeEquals(sorted, x) ==
    LET keep == Cardinality({i \in 1..Len(sorted) : sorted[i][2] > x[2]})
    IN SubSeq(sorted, 1, keep) \o <<x>> \o SubSeq(sorted, keep + 1, Len(sorted))

\* One element placed by the stable descending sort: after every element
\* whose size is not smaller.
InsertDesc(sorted, x) ==
    LET keep == Cardinality({i \in 1..Len(sorted) : sorted[i][2] >= x[2]})
    IN SubSeq(sorted, 1, keep) \o <<x>> \o SubSeq(sorted, keep + 1, Len(sorted))

\* list.sort(key=lambda x: x[1], reverse=True): stable, descending by size.
RECURSIVE SortDesc(_)
SortDesc(list) ==
    IF list = <<>> THEN <<>>
    ELSE InsertDesc(SortDesc(SubSeq(list, 1, Len(list) - 1)), list[Len(list)])

\* list[:n]
Truncate(list, n) == SubSeq(list, 1, IF Len(list) < n THEN Len(list) ELSE n)

Max(a, b) == IF a > b THEN a ELSE b

\* A slip: the path string split at "/" with "." kept as a segment.
Depth_DotIsSegment(node) == Len(SplitSlash(node.path, <<>>))

\* len(Path(node['path']).parts)
Depth(node) == Len(PathParts(node.path))

\* os.path.splitext(node['name'])[1].lower()
ExtOf(node) == Lower(SplitExt(node.name))

\* The largest_files list after a File node.
TrackLargest(list, node) ==
    Truncate(SortDesc(Append(list, <<node.path, node.size>>)), TopN)

\* A slip: a File node counted without its size.
CountFile_SizeDropped(st, node) ==
    [st EXCEPT
       !.files = @ + 1,
       !.largest_files = TrackLargest(@, node)]

\* The body of count_items for a File node.
CountFile(st, node) ==
    LET ext == ExtOf(node) IN
    [st EXCEPT
       !.files = @ + 1,
       !.total_size = @ + node.size,
       !.extensions = IF ext # <<>> THEN Put(@, ext, Get(@, ext, 0) + 1)
                      ELSE @,
       !.size_by_ext = IF ext # <<>>
                       THEN Put(@, ext, Get(@, ext, 0) + node.size)
                       ELSE @,
       !.largest_files = TrackLargest(@, node)]

\* A slip: a Directory node measured but not counted.
CountDirectory_NotCounted(st, node) ==
    [st EXCEPT !.max_depth = Max(@, Depth(node))]

\* The body of count_items for a Directory node, before it recurses.
CountDirectory(st, node) ==
    [st EXCEPT
       !.directories = @ + 1,
       !.max_depth = Max(@, Depth(node))]

----------------------------------------------------------------------------
(* scan_directory, one loop turn or one return at a time.                   *)
(* stack holds the frames of the nested scan_directory calls, the          *)
(* innermost last; work holds the nodes count_items has still to visit.     *)

\* The frames and the exception after one turn of the loop
\* `for item in sorted(path.iterdir())` of the innermost call, when
\* should_ignore(item, ...) ends with `outcome`.
LoopTurn(f, stk, outcome) ==
    LET top      == stk[Len(stk)]
        outer    == SubSeq(stk, 1, Len(stk) - 1)
        item     == Append(top.path, Head(top.todo))
        advanced == [top EXCEPT !.todo = Tail(@)]
        denied   == [top EXCEPT !.todo = <<>>, !.error = "Permission denied"]
        st       == Stat(f, item)
    IN
    IF outcome = "ignore"
    THEN [stack |-> Append(outer, advanced), exc |-> "none"]
    ELSE IF outcome = "raise" \/ IsDir(f, item) = "raise"
    THEN [stack |-> Append(outer, denied), exc |-> "none"]
    ELSE IF IsDir(f, item) = "yes"
    THEN [stack |-> Append(outer, advanced) \o <<NewFrame(f, item)>>,
          exc |-> "none"]
    ELSE IF st.errno = "none"
    THEN [stack |-> Append(outer,
                      [advanced EXCEPT
                         !.children = Append(@, FileNode(item, st.size))]),
          exc |-> "none"]
    ELSE IF OSErrorOf(st.errno) = "PermissionError"
    THEN [stack |-> Append(outer, denied), exc |-> "none"]
    ELSE [stack |-> <<>>, exc |-> OSErrorOf(st.errno)]

\* scan(root_dir): the patterns are loaded and scan_directory(root) is called.
Scan ==
    /\ pc = "start"
    /\ stack' = <<NewFrame(fs, <<>>)>>
    /\ pc' = "scan"
    /\ UNCHANGED <<fs, patterns, tree, exc, stats, work>>

\* One item of the innermost call's loop.
ScanItem ==
    /\ pc = "scan"
    /\ stack # <<>>
    /\ stack[Len(stack)].todo # <<>>
    /\ \E outcome \in should_ignore(fs,
                         Append(stack[Len(stack)].path,
                                Head(stack[Len(stack)].todo)),
                         patterns) :
          LET after == LoopTurn(fs, stack, outcome) IN
          /\ stack' = after.stack
          /\ exc' = after.exc
          /\ pc' = IF after.exc = "none" THEN "scan" ELSE "raised"
    /\ UNCHANGED <<fs, patterns, tree, stats, work>>

\* `return structure` of the innermost call.
ScanReturn ==
    /\ pc = "scan"
    /\ stack # <<>>
    /\ stack[Len(stack)].todo = <<>>
    /\ LET top   == stack[Len(stack)]
           node  == DirNode(top.path, top.children, top.error)
           outer == SubSeq(stack, 1, Len(stack) - 1)
       IN IF outer = <<>>
          THEN /\ tree' = node
               /\ stack' = <<>>
               /\ pc' = "scanned"
          ELSE /\ tree' = tree
               /\ stack' = [outer EXCEPT
                              ![Len(outer)].children = Append(@, node)]
               /\ pc' = pc
    /\ UNCHANGED <<fs, patterns, exc, stats, work>>

\* get_stats(structure) is called: count_items(structure, initial_stats).
GetStats ==
    /\ pc = "scanned"
    /\ stats' = initial_stats
    /\ work' = <<tree>>
    /\ pc' = "stats"
    /\ UNCHANGED <<fs, patterns, stack, tree, exc>>

\* One call of count_items(node, stats).
CountItems ==
    /\ pc = "stats"
    /\ work # <<>>
    /\ LET node == Head(work) IN
       IF node.type = "file"
       THEN /\ stats' = CountFile(stats, node)
            /\ work' = Tail(work)
       ELSE /\ stats' = CountDirectory(stats, node)
            /\ work' = node.children \o Tail(work)
    /\ UNCHANGED <<fs, patterns, pc, stack, tree, exc>>

\* get_stats returns.
GetStatsReturn ==
    /\ pc = "stats"
    /\ work = <<>>
    /\ pc' = "done"
    /\ UNCHANGED <<fs, patterns, stack, tree, exc, stats, work>>

Next ==
    \/ Scan
    \/ ScanItem
    \/ ScanReturn
    \/ GetStats
    \/ CountItems
    \/ GetStatsReturn

NextStats ==
    \/ GetStats
    \/ CountItems
    \/ GetStatsReturn

\* A scan about to start on filesystem f with the loaded patterns pats.
InitScan(filesystems, patternsets) ==
    /\ fs \in filesystems
    /\ patterns \in patternsets
    /\ pc = "start"
    /\ stack = <<>>
    /\ tree = NoNode
    /\ exc = "none"
    /\ stats = initial_stats
    /\ work = <<>>

----------------------------------------------------------------------------
(* Strings of the model.                                                    *)

S_a == <<"a">>
S_b == <<"b">>
S_bSlash == <<"b", "/">>
S_starSlash_a == <<"*", "/", "a">>

Sizes == {10, 20}

\* Files and directories named a or b; patterns that hit them by name, as a
\* directory, and by path.
GenericTemplates ==
    {Dir(n) : n \in {S_a, S_b}}
        \cup {File(n, sz) : n \in {S_a, S_b}, sz \in Sizes}

GenericPatterns == {S_b, S_bSlash, S_a, S_starSlash_a}

Init ==
    InitScan(FileSystems(GenericTemplates, MaxEntries),
             PatternSets(GenericPatterns, MaxPatterns))

Spec == Init /\ [][Next]_vars

----------------------------------------------------------------------------
(* Reading a state: the nodes of a tree, the files of the filesystem.       *)

\* The nodes of a tree, parents before children, children in stored order.
RECURSIVE TreeNodes(_)
RECURSIVE ForestNodes(_)
TreeNodes(node) == <<node>> \o ForestNodes(node.children)
ForestNodes(nodes) ==
    IF nodes = <<>> THEN <<>>
    ELSE TreeNodes(Head(nodes)) \o ForestNodes(Tail(nodes))

FileNodesOf(node) == SelectSeq(TreeNodes(node), LAMBDA n : n.type = "file")

DirNodesOf(node) ==
    SelectSeq(TreeNodes(node), LAMBDA n : n.type = "directory")

\* How many File nodes of the tree carry the path of p.
Occurrences(node, p) ==
    Len(SelectSeq(FileNodesOf(node), LAMBDA n : n.path = JoinSlash(p)))

TreeReturned == pc \in {"scanned", "stats", "done"}

RegularFiles == {p \in DOMAIN fs : fs[p].kind = "file"}

Directories == {p \in DOMAIN fs : fs[p].kind = "dir"}

RECURSIVE SumSizes(_)
SumSizes(paths) ==
    IF paths = {} THEN 0
    ELSE LET p == CHOOSE q \in paths : TRUE
         IN fs[p].size + SumSizes(paths \ {p})

\* should_ignore(F, root, patterns) returns false.
NotIgnored(p) == should_ignore(fs, p, patterns) = {"keep"}

\* should_ignore returns false for p and for every directory above it.
NotPruned(p) == \A q \in Prefixes(p) \ {<<>>} : NotIgnored(q)

----------------------------------------------------------------------------
(* C1 *)

----------------------------------------------------------------------------
(* C9 *)

\* The number of segments of a node's path string, told from its slashes:
\* "." has none.
Segments(path) ==
    IF path = <<".">> THEN 0
    ELSE 1 + Cardinality({i \in 1..Len(path) : path[i] = "/"})

RECURSIVE MaxOf(_)
MaxOf(numbers) ==
    IF numbers = <<>> THEN 0
    ELSE Max(Head(numbers), MaxOf(Tail(numbers)))

\* C9 as stated: a directory's depth is the number of segments of its path
\* with the root counted as depth 1, so max_depth is at least 1.
C9_RootCountsAsDepthOne ==
    pc = "done" =>
       LET dirs == DirNodesOf(tree) IN
       /\ stats.max_depth >= 1
       /\ stats.max_depth =
             MaxOf([i \in 1..Len(dirs) |->
                      IF dirs[i].path = <<".">> THEN 1
                      ELSE Segments(dirs[i].path)])

\* C9 amended: a directory's depth is the number of segments of its path,
\* which is 0 for the root (path "."); max_depth is the largest depth of a
\* Directory node of the tree, and 0 when the root has no subdirectory.
C9_DepthIsSegmentCount ==
    /\ pc = "done" =>
          LET dirs == DirNodesOf(tree) IN
          /\ stats.max_depth =
                MaxOf([i \in 1..Len(dirs) |-> Segments(dirs[i].path)])
          /\ Len(dirs) = 1 => stats.max_depth = 0
          /\ stats.directories = Len(dirs)
    /\ pc = "stats" /\ work # <<>> /\ Head(work).type = "directory" =>
          /\ Depth(Head(work)) = Segments(Head(work).path)
          /\ Head(work) = tree <=> Depth(Head(work)) = 0

\* A finished run over a tree with a directory two levels below the root.
C9_Witness ==
    /\ pc = "done"
    /\ stats.max_depth = 2
    /\ stats.directories >= 3

----------------------------------------------------------------------------
(* C2 *)

S_build == <<"b", "u", "i", "l", "d">>
S_buildSlash == <<"b", "u", "i", "l", "d", "/">>
S_x == <<"x">>

\* Files and directories named build or x, at any depth.
BuildTemplates ==
    {Dir(S_build), Dir(S_x), File(S_build, 10), File(S_x, 10)}

InitBuild ==
    InitScan(FileSystems(BuildTemplates, MaxEntries), SUBSET {S_buildSlash})

SpecBuild == InitBuild /\ [][Next]_vars

\* p is a directory named build, or lies beneath one.
InBuildDirectory(p) ==
    \E k \in 1..Len(p) :
        p[k] = S_build /\ fs[SubSeq(p, 1, k)].kind = "dir"

\* Some node of the tree carries the path of p.
Present(node, p) ==
    \E i \in 1..Len(TreeNodes(node)) : TreeNodes(node)[i].path = JoinSlash(p)

\* C2: with the pattern set {"build/"}, every directory named build, at any
\* depth, is absent from the returned tree with every entry beneath it, and
\* every regular file named build that is not beneath such a directory is
\* present.
C2_BuildDirectoriesPrunedFilesKept ==
    TreeReturned /\ patterns = {S_buildSlash} =>
       /\ \A p \in DOMAIN fs : InBuildDirectory(p) => ~Present(tree, p)
       /\ \A p \in RegularFiles :
             p[Len(p)] = S_build /\ ~InBuildDirectory(p) =>
                Occurrences(tree, p) = 1

\* A returned tree that holds a file named build below the root's
\* subdirectory, next to a directory named build that was left out with
\* what it holds.
C2_Witness ==
    /\ TreeReturned
    /\ patterns = {S_buildSlash}
    /\ \E p \in RegularFiles :
          Len(p) = 2 /\ p[2] = S_build /\ Occurrences(tree, p) = 1
    /\ \E p \in Directories :
          /\ p[Len(p)] = S_build
          /\ \E q \in DOMAIN fs : Len(q) > Len(p) /\ SubSeq(q, 1, Len(p)) = p

----------------------------------------------------------------------------
(* C3 *)

S_appLog == <<"a", "p", "p", ".", "l", "o", "g">>
S_appLogs == <<"a", "p", "p", ".", "l", "o", "g", "s">>
S_temp == <<"t", "e", "m", "p">>
S_sub == <<"s", "u", "b">>
S_dir == <<"d", "i", "r">>
S_starLog == <<"*", ".", "l", "o", "g">>
S_subSlash == <<"s", "u", "b", "/">>

\* app.log, app.logs and temp as files, temp and sub as directories.
GlobTemplates ==
    {File(S_appLog, 10), File(S_appLogs, 10), File(S_temp, 10),
     Dir(S_temp), Dir(S_sub)}

InitGlob ==
    InitScan(FileSystems(GlobTemplates, MaxEntries),
             PatternSets({S_starLog, S_temp, S_subSlash}, MaxPatterns))

SpecGlob == InitGlob /\ [][Next]_vars

HasSlash(pattern) == \E i \in 1..Len(pattern) : pattern[i] = "/"

\* should_ignore(p, root, patterns) returns true.
Ignored(p) == should_ignore(fs, p, patterns) = {"ignore"}

\* C3: a pattern without "/" that glob-matches the base name of an entry,
\* at any depth, makes should_ignore return true: "*.log" ignores app.log
\* and sub/dir/app.log, "temp" ignores a file or directory named temp at any
\* depth, and with the pattern set {"*.log"} app.logs is not ignored.
C3_BaseNameMatchIgnores ==
    /\ \A p \in DOMAIN fs : \A pattern \in patterns :
          ~HasSlash(pattern) /\ FnMatch(p[Len(p)], pattern) => Ignored(p)
    /\ \A p \in DOMAIN fs :
          /\ S_starLog \in patterns /\ p[Len(p)] = S_appLog => Ignored(p)
          /\ S_temp \in patterns /\ p[Len(p)] = S_temp => Ignored(p)
          /\ patterns = {S_starLog} /\ p[Len(p)] = S_appLogs => NotIgnored(p)
    /\ should_ignore(fs, <<S_appLog>>, {S_starLog}) = {"ignore"}
    /\ should_ignore(fs, <<S_sub, S_dir, S_appLog>>, {S_starLog}) = {"ignore"}
    /\ should_ignore(fs, <<S_appLogs>>, {S_starLog}) = {"keep"}
    /\ should_ignore(fs, <<S_sub, S_dir, S_temp>>, {S_temp}) = {"ignore"}

\* The scan has passed sub/sub, which holds app.log and app.logs, under the
\* pattern set {"*.log"}: app.logs was kept and app.log left out.
C3_Witness ==
    /\ TreeReturned
    /\ patterns = {S_starLog}
    /\ <<S_sub, S_sub, S_appLog>> \in DOMAIN fs
    /\ ~Present(tree, <<S_sub, S_sub, S_appLog>>)
    /\ <<S_sub, S_sub, S_appLogs>> \in DOMAIN fs
    /\ Present(tree, <<S_sub, S_sub, S_appLogs>>)

----------------------------------------------------------------------------
(* C5 *)

S_aTxt == <<"a", ".", "t", "x", "t">>
S_cTxt == <<"c", ".", "t", "x", "t">>
S_d == <<"d">>

\* a.txt of 10 bytes, c.txt of 20 bytes, directories b and d.
ScenarioTemplates == {File(S_aTxt, 10), File(S_cTxt, 20), Dir(S_b), Dir(S_d)}

InitScenario ==
    InitScan(FileSystems(ScenarioTemplates, MaxEntries), SUBSET {S_bSlash})

SpecScenario == InitScenario /\ [][Next]_vars

\* The root holds a.txt (10 bytes), b holding c.txt (20 bytes), and the
\* empty directory d.
ScenarioFS ==
    (<<S_aTxt>> :> Entry(File(S_aTxt, 10), <<>>))
    @@ (<<S_b>> :> Entry(Dir(S_b), <<>>))
    @@ (<<S_b, S_cTxt>> :> Entry(File(S_cTxt, 20), <<>>))
    @@ (<<S_d>> :> Entry(Dir(S_d), <<>>))

InScenario == fs = ScenarioFS /\ patterns = {S_bSlash}

\* C5 as stated: the scenario ends with files = 1, directories = 2,
\* total_size = 10 and max_depth = 2.
C5_ScenarioMaxDepthTwo ==
    InScenario /\ pc = "done" =>
       /\ stats.files = 1
       /\ stats.directories = 2
       /\ stats.total_size = 10
       /\ stats.max_depth = 2

\* C5 amended: the scenario ends with files = 1, directories = 2,
\* total_size = 10 and max_depth = 1.
C5_ScenarioMaxDepthOne ==
    InScenario /\ pc = "done" =>
       /\ stats.files = 1
       /\ stats.directories = 2
       /\ stats.total_size = 10
       /\ stats.max_depth = 1

\* The scenario, scanned and aggregated.
C5_Witness == InScenario /\ pc = "done" /\ stats.directories = 2

----------------------------------------------------------------------------
(* C10 *)

S_dotT == <<".", "t">>
S_aDotT == <<"a", ".", "T">>
S_aDotBDotT == <<"a", ".", "B", ".", "t">>
S_aDot == <<"a", ".">>
S_dotDotT == <<".", ".", "t">>

\* Files named .t, a.T, a.B.t, a, a. and ..t, and a directory d.
ExtTemplates ==
    {File(n, sz) : n \in {S_dotT, S_aDotT, S_aDotBDotT, S_a, S_aDot, S_dotDotT},
                   sz \in Sizes}
        \cup {Dir(S_d)}

InitExt == InitScan(FileSystems(ExtTemplates, MaxEntries), {{}})

SpecExt == InitExt /\ [][Next]_vars

\* The place of the last "." of a name, 0 when it has none.
LastDotOf(name) ==
    MaxOf([i \in 1..Len(name) |-> IF name[i] = "." THEN i ELSE 0])

\* The lowercased text of a name from its last "." on; empty without a ".".
FromLastDot(name) ==
    IF LastDotOf(name) = 0 THEN <<>>
    ELSE Lower(SubSeq(name, LastDotOf(name), Len(name)))

\* The same, but empty too when nothing except dots precedes the last ".".
FromLastDotAfterStem(name) ==
    IF \A k \in 1..(LastDotOf(name) - 1) : name[k] = "." THEN <<>>
    ELSE FromLastDot(name)

RECURSIVE SumNodeSizes(_)
SumNodeSizes(nodes) ==
    IF nodes = <<>> THEN 0 ELSE Head(nodes).size + SumNodeSizes(Tail(nodes))

FileNames == {FileNodesOf(tree)[i].name : i \in 1..Len(FileNodesOf(tree))}

\* extensions and size_by_ext count and sum the File nodes by ext[name].
TalliedBy(ext) ==
    LET files  == FileNodesOf(tree)
        exts   == {ext[n] : n \in FileNames} \ {<<>>}
        of(e)  == SelectSeq(files, LAMBDA n : ext[n.name] = e)
    IN /\ DOMAIN stats.extensions = exts
       /\ DOMAIN stats.size_by_ext = exts
       /\ \A e \in exts : /\ stats.extensions[e] = Len(of(e))
                          /\ stats.size_by_ext[e] = SumNodeSizes(of(e))

\* C10 as stated: ext is the lowercased text of the base name from its last
\* "." on, also when that "." is the first character; extensions and
\* size_by_ext count and sum the File nodes by it.
C10_ExtFromLastDot ==
    pc = "done" => TalliedBy([n \in FileNames |-> FromLastDot(n)])

\* C10 amended: ext is the lowercased text of the base name from its last
\* "." on, and empty when the name has no "." or when only dots precede its
\* last "."; extensions and size_by_ext count and sum the File nodes by it.
C10_ExtFromLastDotAfterStem ==
    /\ pc = "done" =>
          TalliedBy([n \in FileNames |-> FromLastDotAfterStem(n)])
    /\ pc = "stats" /\ work # <<>> /\ Head(work).type = "file" =>
          ExtOf(Head(work)) = FromLastDotAfterStem(Head(work).name)

\* Aggregated: a file named .t that was given no extension beside files
\* counted under ".t".
C10_Witness ==
    /\ pc = "done"
    /\ \E i \in 1..Len(FileNodesOf(tree)) : FileNodesOf(tree)[i].name = S_dotT
    /\ S_dotT \in DOMAIN stats.extensions
    /\ stats.extensions[S_dotT] >= 2

----------------------------------------------------------------------------
(* C4 *)

\* The i-th file of a flat tree: one-letter names in sorted order.
FlatName(i) == <<AsciiOrder[8 + i]>>

\* The tree scan_directory returns for a root holding n files of the sizes.
FlatTree(n, sizes) ==
    DirNode(<<>>, [i \in 1..n |-> FileNode(<<FlatName(i)>>, sizes[i])], "none")

\* get_stats about to be called on a flat tree of up to MaxFiles files.
InitTopN ==
    /\ \E n \in 0..MaxFiles : \E sizes \in [1..n -> Sizes] :
          tree = FlatTree(n, sizes)
    /\ fs = <<>>
    /\ patterns = {}
    /\ pc = "scanned"
    /\ stack = <<>>
    /\ exc = "none"
    /\ stats = initial_stats
    /\ work = <<>>

SpecTopN == InitTopN /\ [][NextStats]_vars

\* The File nodes count_items has processed, in the order it met them.
Seen == SubSeq(FileNodesOf(tree), 1, stats.files)

\* Where each entry of largest_files was met.
MetAt(seen, top) ==
    [i \in 1..Len(top) |-> CHOOSE k \in 1..Len(seen) : seen[k].path = top[i][1]]

\* C4: after every File node, largest_files has at most 10 entries, is
\* sorted by non-increasing size, and holds the largest files seen so far,
\* equal sizes in the order met: a later file of the same size neither
\* precedes nor displaces an earlier one.
C4_LargestFilesTopTenStable ==
    pc \in {"stats", "done"} =>
       LET top  == stats.largest_files
           seen == Seen
           met  == MetAt(seen, top)
           left == {k \in 1..Len(seen) : \A i \in 1..Len(top) : met[i] # k}
       IN
       /\ Len(top) <= 10
       /\ Len(top) = IF Len(seen) < 10 THEN Len(seen) ELSE 10
       /\ \A i \in 1..Len(top) :
             \E k \in 1..Len(seen) : top[i] = <<seen[k].path, seen[k].size>>
       /\ \A i, j \in 1..Len(top) :
             i < j => /\ top[i][2] >= top[j][2]
                      /\ top[i][1] # top[j][1]
                      /\ top[i][2] = top[j][2] => met[i] < met[j]
       /\ \A k \in left : \A i \in 1..Len(top) :
             \/ top[i][2] > seen[k].size
             \/ top[i][2] = seen[k].size /\ met[i] < k

\* More than ten files processed, the eleventh as large as one that stays
\* in the list and larger than one that left it.
C4_Witness ==
    /\ pc = "stats"
    /\ stats.files = 11
    /\ Len(stats.largest_files) = 10
    /\ stats.largest_files[10][2] = 20
    /\ Seen[11].size = 20
    /\ \E k \in 1..10 : Seen[k].size = 10

----------------------------------------------------------------------------
(* C6, C7, C8: filesystems with unreadable directories, entries whose stat  *)
(* is denied or finds nothing, and symbolic links to ancestors.             *)

FaultTemplates ==
    UNION {{Dir(n), Faulty(Dir(n), "EACCES"),
            File(n, 10), Faulty(File(n, 10), "EACCES"),
            Faulty(File(n, 10), "ENOENT"), Link(n)} : n \in {S_a, S_b}}

InitFaults ==
    InitScan(FileSystems(FaultTemplates, MaxEntries),
             PatternSets({S_b, S_bSlash}, MaxPatterns))

SpecFaults == InitFaults /\ [][Next]_vars

\* C6: in every returned tree, a Directory node that carries an error
\* marker has no children.
C6_ErrorNodesHaveNoChildren ==
    TreeReturned =>
       \A i \in 1..Len(DirNodesOf(tree)) :
          DirNodesOf(tree)[i].error # "none" =>
             DirNodesOf(tree)[i].children = <<>>

\* C7: with a listable root, no failure below it (a denied listing, a stat
\* that is denied or finds nothing) ends the scan with an exception.
C7_FailuresBelowRootAbsorbed ==
    (\A p \in DOMAIN fs : fs[p].kind # "link") => pc # "raised"

\* C8: the scan completes and returns a tree also when a symbolic link
\* points at an ancestor of its own.
C8_ScanCompletesOnSymlinkCycle ==
    (/\ \E p \in DOMAIN fs : fs[p].kind = "link"
     /\ \A p \in DOMAIN fs : fs[p].fault # "ENOENT") => pc # "raised"

====
